---- MODULE Spec2Model ----
(***************************************************************************)
(* The book-generation pipeline of src/services/bookService.ts (the        *)
(* "Enhanced Version with Recovery", second class in the file) together    *)
(* with the caller state kept by src/App.tsx, for ONE job (book).          *)
(*                                                                         *)
(* A step of the model is what the single-threaded event loop runs between *)
(* two suspension points (await of the provider call, await sleep).        *)
(* Planned units are numbered 1..NumModules in roadmap plan order          *)
(* (parseRoadmapResponse assigns id module_k and order k).  The content of *)
(* a completed unit for planned unit u is represented by the number u, the *)
(* empty content of an error unit by 0.  Progress percentages are stored   *)
(* multiplied by NumModules, so that 15 + 70*k/N stays an integer.         *)
(*                                                                         *)
(* Left out: the id, title and timestamps of a unit; the token counters;   *)
(* the catch block at lines 1535-1564, which no execution reaches because  *)
(* generateModuleContentWithRetry catches every error itself.              *)
(* In the pipeline specifications (Spec, SpecCalls, SpecJob) a provider    *)
(* call is one step with its outcome and every localStorage write goes     *)
(* through; SpecGateway follows one call request by request, and SpecStore *)
(* exercises the checkpoint store with writes that may throw.              *)
(* Of book.error the model keeps the error field of the last progress      *)
(* update only: the caller merges updates, so an older message stays in    *)
(* the book until the next message replaces it, and nothing reads it.      *)
(***************************************************************************)
EXTENDS Integers, Sequences, FiniteSets, TLC

\* ---------------------------------------------------------------- bounds
NumModules == 3      \* planned units in the roadmap
MaxUnits == 4        \* cap on the length of the job's unit list
NumJobs == 2         \* jobs whose provider calls share the active-request table
MaxLogCalls == 102   \* logging calls followed on one logger
MaxListeners == 2    \* entries of the logger's listener list

\* ------------------------------------------------------ program constants
MAX_MODULE_RETRIES == 3
RETRY_DELAY_BASE == 2000
maxAttempts == 2
maxRetries == 3
maxLogs == 100
MinWords == 300
DisplayedRetryLimit == 5

\* The ways a provider call can fail.
FaultKinds ==
    {"RateLimited", "InvalidCredential", "MalformedResponse",
     "ConfigurationError", "NetworkFailure", "Aborted", "ContentTooShort"}

PlanIds == 1..NumModules
JobIds == 1..NumJobs
roadmap == [k \in PlanIds |-> k]

ShortWordCounts == {150, 299}     \* provider texts below the minimum length
FullWordCounts == {300}           \* provider texts of sufficient length
RetryableKinds == {"RateLimited", "NetworkFailure", "ContentTooShort"}
GatewayErrorKinds == {"RateLimited", "InvalidCredential", "MalformedResponse"}
AuxNames == {"introduction", "summary", "glossary"}

\* In one behaviour the environment fails in one way only: the pipeline
\* treats a failure the same whatever its kind, and the kind (with the word
\* count of a too-short text) only travels into the error unit.
Faults ==
    [kind : FaultKinds \ {"ContentTooShort"}, words : {0}] \cup
    [kind : {"ContentTooShort"}, words : ShortWordCounts]

Pct(p) == p * NumModules
Min(a, b) == IF a < b THEN a ELSE b

\* ------------------------------------------------------------ error values
Err(kind) == [kind |-> kind, words |-> 0, minimum |-> 0]
NoError == Err("none")
TooShort(words) ==
    [kind |-> "ContentTooShort", words |-> words, minimum |-> MinWords]

\* ------------------------------------------------------------- unit values
CompletedModule(u, words) ==
    [roadmapModuleId |-> u, content |-> u, wordCount |-> words,
     status |-> "completed", error |-> NoError]

ErrorModule(u, e) ==
    [roadmapModuleId |-> u, content |-> 0, wordCount |-> 0,
     status |-> "error", error |-> e]

IsCompleted(m) == m.status = "completed"
IsError(m) == m.status = "error"
FilterCompleted(ms) == SelectSeq(ms, IsCompleted)
FilterError(ms) == SelectSeq(ms, IsError)
RoadmapIdsOf(ms) == {ms[k].roadmapModuleId : k \in DOMAIN ms}

\* ------------------------------------------------- failure messages (error)
NoMessage == [kind |-> "none", failed |-> 0, generated |-> 0]

\* `Generation completed with ${failedCount} failed module(s). Successfully
\* generated ${successCount} modules. ...`
GenerationFailedMessage(failedCount, successCount) ==
    [kind |-> "GenerationCompletedWithFailures",
     failed |-> failedCount, generated |-> successCount]

\* `${stillFailed} module(s) still failed after retry`
StillFailedMessage(stillFailed) ==
    [kind |-> "StillFailedAfterRetry", failed |-> stillFailed, generated |-> 0]

\* 'Failed to generate roadmap. Please check your internet connection, ...'
RoadmapFailedMessage ==
    [kind |-> "FailedToGenerateRoadmap", failed |-> 0, generated |-> 0]

\* 'Final assembly failed.'
AssemblyFailedMessage ==
    [kind |-> "FinalAssemblyFailed", failed |-> 0, generated |-> 0]

VARIABLES
    modules,            \* book.modules as held by the caller (App state)
    status,             \* book.status
    progress,           \* book.progress, times NumModules
    finalBook,          \* {} or {the sequence of unit contents of the document}
    totalWords,         \* book.totalWords (0 until a document is assembled)
    error,              \* error field of the last progress update (NoMessage if it had none)
    checkpoints,        \* in-memory checkpoint of the job: {} or {checkpoint}
    localStorage,       \* durable slot checkpoint_<bookId>: {} or {checkpoint}
    activeRequests,     \* TRUE iff activeRequests has an entry for book.id
    pc,                 \* "idle", "inflight", "backoff", "gap", "assembling"
    op,                 \* running operation: "none", "generateAll", "retryFailed", "legacy", "assemble"
    queue,              \* modulesToGenerate / failedModules, as planned unit ids
    i,                  \* 1-based position in queue
    attemptNumber,      \* attemptNumber of generateModuleContentWithRetry
    completedModules,   \* local completedModules / updatedModules
    completedModuleIds, \* local Set
    failedModuleIds,    \* local Set
    aux,                \* assembly: state of the three auxiliary generations
    fault,              \* the way the environment fails in this behaviour
    lastError,          \* error of the last failed attempt
    invoked,            \* planned units generateWithAI was called for in this operation
    entry,              \* what the running operation found at its entry
    cancelled,          \* cancelActiveRequests aborted a call of the current unit
    allRetryable,       \* every failure of the current unit so far was retryable
    storeHistory,       \* what was asked of the checkpoint store (see NoStoreHistory)
    roadmapRun,         \* the call of generateRoadmap that made the job's roadmap
    gatewayCall,        \* one call of generateWithAI seen from inside (see NoGatewayCall)
    delay,              \* ms of the sleep before the next attempt of the unit (0: none pending)
    lastCall,           \* how the last call ended, if it ended at its first statements
    requestTable,       \* the calls of generateWithAI of several jobs (see NoCall)
    logger              \* the ConsoleLogger (see NewLogger)

vars == <<modules, status, progress, finalBook, totalWords, error,
          checkpoints, localStorage,
          activeRequests, pc, op, queue, i, attemptNumber,
          completedModules, completedModuleIds, failedModuleIds, aux, fault,
          lastError, invoked, entry, cancelled, allRetryable, storeHistory,
          roadmapRun, gatewayCall, delay, lastCall, requestTable,
          logger>>

Cur ==
    [modules |-> modules, status |-> status, progress |-> progress,
     finalBook |-> finalBook, totalWords |-> totalWords, error |-> error,
     checkpoints |-> checkpoints,
     localStorage |-> localStorage,
     activeRequests |-> activeRequests, pc |-> pc, op |-> op, queue |-> queue,
     i |-> i, attemptNumber |-> attemptNumber,
     completedModules |-> completedModules,
     completedModuleIds |-> completedModuleIds,
     failedModuleIds |-> failedModuleIds, aux |-> aux, fault |-> fault,
     lastError |-> lastError, invoked |-> invoked, entry |-> entry,
     cancelled |-> cancelled, allRetryable |-> allRetryable,
     storeHistory |-> storeHistory, roadmapRun |-> roadmapRun,
     gatewayCall |-> gatewayCall, delay |-> delay, lastCall |-> lastCall,
     requestTable |-> requestTable, logger |-> logger]

Set(s) ==
    /\ modules' = s.modules
    /\ status' = s.status
    /\ progress' = s.progress
    /\ finalBook' = s.finalBook
    /\ totalWords' = s.totalWords
    /\ error' = s.error
    /\ checkpoints' = s.checkpoints
    /\ localStorage' = s.localStorage
    /\ activeRequests' = s.activeRequests
    /\ pc' = s.pc
    /\ op' = s.op
    /\ queue' = s.queue
    /\ i' = s.i
    /\ attemptNumber' = s.attemptNumber
    /\ completedModules' = s.completedModules
    /\ completedModuleIds' = s.completedModuleIds
    /\ failedModuleIds' = s.failedModuleIds
    /\ aux' = s.aux
    /\ fault' = s.fault
    /\ lastError' = s.lastError
    /\ invoked' = s.invoked
    /\ entry' = s.entry
    /\ cancelled' = s.cancelled
    /\ allRetryable' = s.allRetryable
    /\ storeHistory' = s.storeHistory
    /\ roadmapRun' = s.roadmapRun
    /\ gatewayCall' = s.gatewayCall
    /\ delay' = s.delay
    /\ lastCall' = s.lastCall
    /\ requestTable' = s.requestTable
    /\ logger' = s.logger

NoEntry == [hadCheckpoint |-> FALSE, checkpointCompleted |-> {},
            checkpointFailed |-> {}, jobCompleted |-> {}, jobFailed |-> {},
            jobUnits |-> <<>>]
AuxIdle == [a \in AuxNames |-> "idle"]

\* The requests made of the checkpoint store when it is exercised on its
\* own: saved is the checkpoint of the last save of this process (none after
\* a clear or a reload), durable the last saved checkpoint whose localStorage
\* write went through (none after a clear), cleared says that the last
\* request that was not a reload was a clear, and removed is what that clear
\* found in the map and in the slot.
\* generateRoadmap: where the call is ("none" before it, "inflight" in the
\* provider call, "sleep" between attempts, "returned", "thrown"), its
\* attempt counter, the calls of generateWithAI it made and the progress
\* updates it sent, by status.
\* roadmap is book.roadmap, as the success update of generateRoadmap sets it;
\* rewritten says that the provider's own ids, orders or total were not the
\* ones the roadmap now has.
NoRoadmap == [present |-> FALSE, modules |-> <<>>, totalModules |-> 0]

NoRoadmapRun ==
    [pc |-> "none", attempt |-> 0, calls |-> 0, generatingUpdates |-> 0,
     readyUpdates |-> 0, failedUpdates |-> 0, roadmap |-> NoRoadmap,
     rewritten |-> FALSE]

\* What the provider can answer to the roadmap prompt: text without a JSON
\* object, a JSON object without a modules array, or a JSON object with a
\* modules array whose entries carry whatever id and order the provider
\* wrote, and whatever totalModules it wrote.
ProviderModules == [id : {1, 2}, order : {0, 1}]

RECURSIVE SeqsUpTo(_, _)
SeqsUpTo(S, n) ==
    IF n = 0 THEN {<<>>}
    ELSE LET shorter == SeqsUpTo(S, n - 1)
         IN  shorter \cup {Append(q, x) : q \in {r \in shorter : Len(r) = n - 1},
                                          x \in S}

WellFormedText ==
    [json |-> TRUE, hasModules |-> TRUE,
     modules |-> [k \in 1..NumModules |-> [id |-> k, order |-> k]],
     totalModules |-> NumModules]

RoadmapTexts ==
    [json : {TRUE}, hasModules : {TRUE},
     modules : SeqsUpTo(ProviderModules, NumModules),
     totalModules : {0, NumModules}]
    \cup [json : {TRUE}, hasModules : {FALSE}, modules : {<<>>}, totalModules : {0}]
    \cup [json : {FALSE}, hasModules : {FALSE}, modules : {<<>>}, totalModules : {0}]

\* Mutant: the parser keeps the id and the order the provider wrote.
parseRoadmapResponse_KeepsProviderIds(text) ==
    IF ~text.json THEN [error |-> "InvalidResponseFormat", roadmap |-> NoRoadmap]
    ELSE IF ~text.hasModules THEN [error |-> "InvalidRoadmap", roadmap |-> NoRoadmap]
    ELSE [error |-> "ok",
          roadmap |-> [present |-> TRUE, modules |-> text.modules,
                       totalModules |-> Len(text.modules)]]

\* parseRoadmapResponse of the second class: throws when no JSON object is
\* found or when modules is not an array; else every entry gets the id
\* module_<index+1> and the order index+1, and totalModules the length.
parseRoadmapResponse(text) ==
    IF ~text.json THEN [error |-> "InvalidResponseFormat", roadmap |-> NoRoadmap]
    ELSE IF ~text.hasModules THEN [error |-> "InvalidRoadmap", roadmap |-> NoRoadmap]
    ELSE [error |-> "ok",
          roadmap |-> [present |-> TRUE,
                       modules |-> [k \in 1..Len(text.modules) |->
                                       [id |-> k, order |-> k]],
                       totalModules |-> Len(text.modules)]]

\* generateRoadmap returned the roadmap at its first attempt.
RoadmapReturnedAtOnce ==
    [pc |-> "returned", attempt |-> 0, calls |-> 1, generatingUpdates |-> 1,
     readyUpdates |-> 1, failedUpdates |-> 0,
     roadmap |-> parseRoadmapResponse(WellFormedText).roadmap,
     rewritten |-> FALSE]

\* The ConsoleLogger of src/utils/logger.ts: logs holds the entries (each
\* stands for its timestamp, the number of the logging call that made it),
\* listeners the subscribed functions in subscription order; calls counts
\* the logging calls, last names the last call, received says how often
\* that call invoked each listener (for a logging call or a clear) and
\* delivered what array contents it handed to them.
ListenerIds == {1, 2}
Levels == {"info", "warn", "error", "debug"}

NewLogger ==
    [logs |-> <<>>, listeners |-> <<>>, calls |-> 0, last |-> "none",
     received |-> [l \in ListenerIds |-> 0], delivered |-> <<>>]

\* The latest call of generateWithAI made for a job (bookId is the request
\* id): pc is "none" before the first call, "rejected" when a pre-check
\* threw, "fetch" while an HTTP request is awaited, "sleep" in a sleep of
\* the provider function, "returned" or "thrown" at the end; registered
\* says that activeRequests holds the call's controller under the id, timer
\* that its timeout is pending, aborted that its signal is aborted, and
\* abortedBy what aborted it first: "timeout", "cancel" (cancelActiveRequests
\* with this id), "cancelOther" (with another id) or "cancelAll" (without).
NoCall ==
    [pc |-> "none", attempt |-> 0, registered |-> FALSE, timer |-> FALSE,
     aborted |-> FALSE, abortedBy |-> "none"]

\* A call of generateWithAI with the provider function it awaits: pc is
\* "none" before the call, "fetch" while the HTTP request and the reading of
\* its body are awaited, "sleep429" in the sleep after a 429/503 response,
\* "sleepError" in the sleep of the catch block, "returned" or "thrown" at
\* the end; attempt is the provider function's counter, requests the HTTP
\* requests sent, last what the last request came back with, retriedAfter
\* the responses after which another request was sent, aborted the state of
\* the AbortSignal, timer whether the requestTimeout timer is armed, result
\* the text or the error the call ended with.
NoGatewayCall ==
    [pc |-> "none", attempt |-> 0, requests |-> 0, last |-> "none",
     retriedAfter |-> {}, aborted |-> FALSE, timer |-> FALSE,
     result |-> "none"]

NoStoreHistory ==
    [saved |-> {}, durable |-> {}, cleared |-> FALSE, removed |-> {}]

Init ==
    /\ modules = <<>>
    /\ status = "roadmap_completed"
    /\ progress = Pct(10)
    /\ finalBook = {}
    /\ totalWords = 0
    /\ error = NoMessage
    /\ checkpoints = {}
    /\ localStorage = {}
    /\ activeRequests = FALSE
    /\ pc = "idle"
    /\ op = "none"
    /\ queue = <<>>
    /\ i = 0
    /\ attemptNumber = 0
    /\ completedModules = <<>>
    /\ completedModuleIds = {}
    /\ failedModuleIds = {}
    /\ aux = AuxIdle
    /\ fault \in Faults
    /\ lastError = NoError
    /\ invoked = {}
    /\ entry = NoEntry
    /\ cancelled = FALSE
    /\ allRetryable = TRUE
    /\ storeHistory = NoStoreHistory
    /\ roadmapRun = RoadmapReturnedAtOnce
    /\ gatewayCall = NoGatewayCall
    /\ delay = 0
    /\ lastCall = "none"
    /\ requestTable = [j \in JobIds |-> NoCall]
    /\ logger = NewLogger

\* --------------------------------------------------------- checkpoint store
Checkpoint(cIds, fIds, lastIndex) ==
    [completedModuleIds |-> cIds, failedModuleIds |-> fIds,
     lastSuccessfulIndex |-> lastIndex]

\* saveCheckpoint writes the in-memory map and the durable slot.
saveCheckpoint(s, cIds, fIds, lastIndex) ==
    [s EXCEPT !.checkpoints = {Checkpoint(cIds, fIds, lastIndex)},
              !.localStorage = {Checkpoint(cIds, fIds, lastIndex)}]

\* localStorage.setItem throws (quota exceeded): the catch logs a warning,
\* the in-memory map has the checkpoint, the durable slot keeps what it had.
saveCheckpointWriteFails(s, cIds, fIds, lastIndex) ==
    [s EXCEPT !.checkpoints = {Checkpoint(cIds, fIds, lastIndex)}]

\* Mutant: the durable slot is read first, the in-memory map only if the
\* slot is empty.
loadCheckpoint_DurableFirst(s) ==
    IF s.localStorage # {} THEN s.localStorage ELSE s.checkpoints

loadCheckpoint(s) ==
    IF s.checkpoints # {} THEN s.checkpoints ELSE s.localStorage

\* Mutant: only the in-memory copy is deleted.
clearCheckpoint_MemoryOnly(s) ==
    [s EXCEPT !.checkpoints = {}]

clearCheckpoint(s) ==
    [s EXCEPT !.checkpoints = {}, !.localStorage = {}]

hasCheckpoint(s) == s.checkpoints # {} \/ s.localStorage # {}

\* getCheckpointInfo: {} for null, else the sizes of the two sets.
getCheckpointInfo(s) ==
    {[completed |-> Cardinality(c.completedModuleIds),
      failed |-> Cardinality(c.failedModuleIds),
      total |-> Cardinality(c.completedModuleIds)
                  + Cardinality(c.failedModuleIds)] : c \in loadCheckpoint(s)}

\* What an operation finds at its entry (kept for the properties only).
EntrySnapshot(s) ==
    LET checkpoint == loadCheckpoint(s)
    IN  [hadCheckpoint |-> checkpoint # {},
         checkpointCompleted |-> UNION {c.completedModuleIds : c \in checkpoint},
         checkpointFailed |-> UNION {c.failedModuleIds : c \in checkpoint},
         jobCompleted |-> RoadmapIdsOf(FilterCompleted(s.modules)),
         jobFailed |-> RoadmapIdsOf(FilterError(s.modules)),
         jobUnits |-> s.modules]

\* ------------------------------------------- generateAllModulesWithRecovery
\* The ids taken as already completed (const completedModuleIds = new Set(...)).
CompletedIdsAtEntry(checkpoint, completed) ==
    IF checkpoint # {}
    THEN (CHOOSE c \in checkpoint : TRUE).completedModuleIds
    ELSE RoadmapIdsOf(completed)

FailedIdsAtEntry(checkpoint) ==
    IF checkpoint # {}
    THEN (CHOOSE c \in checkpoint : TRUE).failedModuleIds
    ELSE {}

\* Mutant: nothing is filtered out, every planned unit is generated again.
ModulesToGenerate_All(cIds) ==
    roadmap

\* book.roadmap.modules.filter(rm => !completedModuleIds.has(rm.id))
ModulesToGenerate(cIds) ==
    SelectSeq(roadmap, LAMBDA u : u \notin cIds)

\* The locals of a finished operation go out of scope.
Return(s) ==
    [s EXCEPT !.pc = "idle", !.queue = <<>>, !.i = 0, !.attemptNumber = 0,
              !.completedModules = <<>>, !.completedModuleIds = {},
              !.failedModuleIds = {}, !.lastError = NoError,
              !.activeRequests = FALSE, !.op = "none", !.invoked = {},
              !.entry = NoEntry, !.cancelled = FALSE, !.allRetryable = TRUE,
              !.aux = AuxIdle, !.delay = 0, !.lastCall = "none"]

\* Mutant: the clean end reports ready-for-assembly and leaves the checkpoint.
GenAllFinish_KeepsCheckpoint(s) ==
    Return([s EXCEPT !.status = "roadmap_completed",
                     !.modules = s.completedModules, !.progress = Pct(90),
                     !.error = NoMessage])

\* Mutant: a run with failures returns without its failure summary.
GenAllFinish_NoSummary(s) ==
    IF \E k \in DOMAIN s.completedModules : IsError(s.completedModules[k])
    THEN Return([s EXCEPT !.modules = s.completedModules])
    ELSE Return([clearCheckpoint(s) EXCEPT !.status = "roadmap_completed",
                   !.modules = s.completedModules, !.progress = Pct(90),
                   !.error = NoMessage])

\* After the loop: the failure summary or ready-for-assembly.
GenAllFinish(s) ==
    IF \E k \in DOMAIN s.completedModules : IsError(s.completedModules[k])
    THEN Return([s EXCEPT !.status = "error",
                          !.error = GenerationFailedMessage(
                                        Len(FilterError(s.completedModules)),
                                        Len(FilterCompleted(s.completedModules))),
                          !.modules = s.completedModules])
    ELSE Return([clearCheckpoint(s) EXCEPT !.status = "roadmap_completed",
                   !.modules = s.completedModules, !.progress = Pct(90),
                   !.error = NoMessage])

\* Mutant: the first error unit ends the run, the remaining planned units
\* are not attempted.
GenAllOutcome_StopsAtError(s, newModule) ==
    LET cm == Append(s.completedModules, newModule)
        s1 == [s EXCEPT !.completedModules = cm, !.modules = cm]
    IN  IF s.i < Len(s.queue) /\ IsCompleted(newModule)
        THEN [s1 EXCEPT !.pc = "gap"]
        ELSE GenAllFinish(s1)

\* Mutant: a unit that completes is added to the completed ids and left in
\* the failed ids (failedModuleIds.delete is missing).
GenAllOutcome_KeepsFailedId(s, newModule) ==
    LET u == s.queue[s.i]
        cm == Append(s.completedModules, newModule)
        cIds == IF IsCompleted(newModule) THEN s.completedModuleIds \cup {u}
                ELSE s.completedModuleIds
        fIds == IF IsCompleted(newModule) THEN s.failedModuleIds
                ELSE s.failedModuleIds \cup {u}
        s1 == [saveCheckpoint(s, cIds, fIds, s.i - 1) EXCEPT
                  !.completedModules = cm,
                  !.completedModuleIds = cIds,
                  !.failedModuleIds = fIds,
                  !.modules = cm,
                  !.error = NoMessage,
                  !.progress = IF IsCompleted(newModule)
                               THEN Min(Pct(85), Pct(15) + Len(cm) * 70)
                               ELSE @]
    IN  IF s.i < Len(s.queue)
        THEN [s1 EXCEPT !.pc = "gap"]
        ELSE GenAllFinish(s1)

\* The loop body after generateModuleContentWithRetry returned newModule.
GenAllOutcome(s, newModule) ==
    LET u == s.queue[s.i]
        cm == Append(s.completedModules, newModule)
        cIds == IF IsCompleted(newModule) THEN s.completedModuleIds \cup {u}
                ELSE s.completedModuleIds
        fIds == IF IsCompleted(newModule) THEN s.failedModuleIds \ {u}
                ELSE s.failedModuleIds \cup {u}
        s1 == [saveCheckpoint(s, cIds, fIds, s.i - 1) EXCEPT
                  !.completedModules = cm,
                  !.completedModuleIds = cIds,
                  !.failedModuleIds = fIds,
                  !.modules = cm,
                  !.error = NoMessage,
                  !.progress = IF IsCompleted(newModule)
                               THEN Min(Pct(85), Pct(15) + Len(cm) * 70)
                               ELSE @]
    IN  IF s.i < Len(s.queue)
        THEN [s1 EXCEPT !.pc = "gap"]
        ELSE GenAllFinish(s1)

\* ------------------------------------------------------- retryFailedModules
\* After the loop and its last sleep.
RetryFinish(s) ==
    IF \E k \in DOMAIN s.completedModules : IsError(s.completedModules[k])
    THEN Return([s EXCEPT !.status = "error",
                          !.error = StillFailedMessage(
                                        Len(FilterError(s.completedModules))),
                          !.modules = s.completedModules])
    ELSE Return([clearCheckpoint(s) EXCEPT !.status = "roadmap_completed",
                   !.modules = s.completedModules, !.progress = Pct(90),
                   !.error = NoMessage])

\* Mutant: the unit is pushed and the list is not reported before the sleep.
RetryOutcome_NotReported(s, newModule) ==
    [s EXCEPT !.completedModules = Append(@, newModule),
              !.pc = "gap"]

\* The loop body: push the unit, report the list, sleep(1000).
RetryOutcome(s, newModule) ==
    [s EXCEPT !.completedModules = Append(@, newModule),
              !.modules = Append(s.completedModules, newModule),
              !.error = NoMessage,
              !.pc = "gap"]

UnitOutcome(s, newModule) ==
    IF s.op = "generateAll" THEN GenAllOutcome(s, newModule)
    ELSE RetryOutcome(s, newModule)

\* ------------------------------------------ generateModuleContentWithRetry
\* The retry decision of the catch block.
ShouldRetry(e, n) == n < MAX_MODULE_RETRIES

\* Mutant: the exponent is the attempt number, not the attempt number less 1.
RetryDelay_OffByOne(n) == RETRY_DELAY_BASE * 2 ^ n

\* const delay = this.RETRY_DELAY_BASE * Math.pow(2, attemptNumber - 1)
RetryDelay(n) == RETRY_DELAY_BASE * 2 ^ (n - 1)

\* Mutant: with the budget exhausted the error is thrown to the caller
\* instead of being returned as an error unit.
AttemptFailed_Rethrows(s, e) ==
    LET s1 == [s EXCEPT !.lastError = e, !.activeRequests = FALSE]
    IN  IF ShouldRetry(e, s.attemptNumber)
        THEN [s1 EXCEPT !.pc = "backoff"]
        ELSE Return([s1 EXCEPT !.status = "error"])

\* The catch block: retry after a delay, or return an error unit.
AttemptFailed(s, e) ==
    LET s1 == [s EXCEPT !.lastError = e,
                        !.activeRequests = FALSE,
                        !.allRetryable = @ /\ e.kind \in RetryableKinds]
    IN  IF ShouldRetry(e, s.attemptNumber)
        THEN [s1 EXCEPT !.pc = "backoff",
                        !.delay = RetryDelay(s.attemptNumber)]
        ELSE UnitOutcome(s1, ErrorModule(s.queue[s.i], e))

\* The minimum-length check.
TooShortContent(words) == words < MinWords

\* generateWithAI returned text of `words` words.
AttemptReturned(s, words) ==
    IF TooShortContent(words)
    THEN AttemptFailed(s, TooShort(words))
    ELSE UnitOutcome([s EXCEPT !.activeRequests = FALSE],
                     CompletedModule(s.queue[s.i], words))

\* Entry of attempt n up to the await of the provider call; generateWithAI
\* pre-checks the settings and navigator.onLine before it registers the call
\* (pre is the outcome of the pre-check: the settings are whatever the last
\* updateSettings call made them, navigator.onLine whatever the browser says).
BeginAttempt(s, n, pre) ==
    LET s1 == [s EXCEPT !.attemptNumber = n,
                        !.delay = 0,
                        !.invoked = @ \cup {s.queue[s.i]},
                        !.cancelled = IF n = 1 THEN FALSE ELSE @,
                        !.allRetryable = IF n = 1 THEN TRUE ELSE @]
    IN  IF pre # "ok"
        THEN AttemptFailed(s1, Err(pre))
        ELSE [s1 EXCEPT !.pc = "inflight", !.activeRequests = TRUE,
                        !.lastError = NoError]

\* Mutant: the early return forgets its report, the job stays in
\* generating_content at progress 15.
NothingToGenerate_Silent(s) ==
    Return(s)

\* if (modulesToGenerate.length === 0): report ready-for-assembly and return.
NothingToGenerate(s) ==
    Return([s EXCEPT !.status = "roadmap_completed", !.progress = Pct(90)])

\* Mutant: the roadmap is looked for after the first progress update.
Thrown_AfterUpdate(s, what) ==
    [Return([s EXCEPT !.status = "generating_content", !.progress = Pct(15)])
       EXCEPT !.lastCall = what]

\* if (!book.roadmap) throw: the call ends at its first statement.
Thrown(s, what) == [Return(s) EXCEPT !.lastCall = what]

\* generateAllModulesWithRecovery up to its first suspension point.
GenAllEntry(s, pre) ==
    LET checkpoint == loadCheckpoint(s)
        completed == FilterCompleted(s.modules)
        cIds == CompletedIdsAtEntry(checkpoint, completed)
        fIds == FailedIdsAtEntry(checkpoint)
        toGen == ModulesToGenerate(cIds)
        s1 == [s EXCEPT !.op = "generateAll",
                        !.status = "generating_content",
                        !.progress = Pct(15),
                        !.error = NoMessage,
                        !.invoked = {},
                        !.entry = EntrySnapshot(s),
                        !.lastCall = "none"]
    IN  IF ~s.roadmapRun.roadmap.present
        THEN Thrown(s, "generateAll: No roadmap available")
        ELSE IF Len(toGen) = 0
        THEN NothingToGenerate(s1)
        ELSE BeginAttempt([s1 EXCEPT !.queue = toGen, !.i = 1,
                                     !.completedModules = completed,
                                     !.completedModuleIds = cIds,
                                     !.failedModuleIds = fIds],
                          1, pre)

\* Mutant: with no error unit the job is reported ready for assembly.
NothingToRetry_ReportsReady(s) ==
    [Return([s EXCEPT !.status = "roadmap_completed", !.progress = Pct(90)])
       EXCEPT !.lastCall = "retryFailed: nothing to retry"]

\* if (failedModules.length === 0) return.
NothingToRetry(s) ==
    [Return(s) EXCEPT !.lastCall = "retryFailed: nothing to retry"]

\* retryFailedModules up to its first suspension point.
RetryEntry(s, pre) ==
    LET failedModules == FilterError(s.modules)
        s1 == [s EXCEPT !.op = "retryFailed", !.invoked = {},
                        !.entry = EntrySnapshot(s), !.lastCall = "none"]
    IN  IF ~s.roadmapRun.roadmap.present
        THEN Thrown(s, "retryFailed: No roadmap available")
        ELSE IF Len(failedModules) = 0
        THEN NothingToRetry(s1)
        ELSE BeginAttempt([s1 EXCEPT
                              !.queue = [k \in DOMAIN failedModules |->
                                            failedModules[k].roadmapModuleId],
                              !.i = 1,
                              !.completedModules = FilterCompleted(s.modules),
                              !.completedModuleIds = {},
                              !.failedModuleIds = {}],
                          1, pre)

\* -------------------------------------------------------- assembleFinalBook
\* ...book.modules.map(m => m.content): the unit contents of the document.
DocumentContents(ms) == [k \in DOMAIN ms |-> ms[k].content]

\* A slip: the auxiliary texts that failed are left out (allSettled instead
\* of all) and the document is built from what is there.
AssemblyRejected_PartialDocument(s) ==
    Return([s EXCEPT !.finalBook = {DocumentContents(s.modules)},
                     !.status = "completed",
                     !.progress = Pct(100)])

\* The caller's catch: handleAssembleBook reports the failure.
AssemblyRejected(s) ==
    Return([s EXCEPT !.status = "error", !.error = AssemblyFailedMessage])

\* book.modules.reduce((sum, m) => sum + m.wordCount, 0) over the first n units.
RECURSIVE SumWordCounts(_, _)
SumWordCounts(ms, n) ==
    IF n = 0 THEN 0 ELSE SumWordCounts(ms, n - 1) + ms[n].wordCount

TotalWords(ms) == SumWordCounts(ms, Len(ms))

\* A slip: the checkpoint is left behind, as in the first class, which has
\* no checkpoint to clear.
AssemblyDone_KeepsCheckpoint(s) ==
    Return([s EXCEPT !.finalBook = {DocumentContents(s.modules)},
                     !.totalWords = TotalWords(s.modules),
                     !.status = "completed",
                     !.progress = Pct(100)])

\* All three auxiliary texts are there: build the document.
AssemblyDone(s) ==
    Return([clearCheckpoint(s) EXCEPT !.finalBook = {DocumentContents(s.modules)},
                                      !.totalWords = TotalWords(s.modules),
                                      !.status = "completed",
                                      !.progress = Pct(100)])

\* Mutant: the first auxiliary text that arrives settles the wait (race
\* instead of all).
AuxReturned_FirstWins(s, a) ==
    AssemblyDone([s EXCEPT !.aux[a] = "done"])

AuxReturned(s, a) ==
    LET s1 == [s EXCEPT !.aux[a] = "done"]
    IN  IF \A b \in AuxNames : s1.aux[b] = "done"
        THEN AssemblyDone(s1)
        ELSE s1

AssembleEntry(s, pre) ==
    LET s1 == [s EXCEPT !.op = "assemble", !.status = "assembling",
                        !.progress = Pct(90), !.error = NoMessage,
                        !.invoked = {}, !.entry = NoEntry,
                        !.lastCall = "none"]
    IN  IF pre # "ok"
        THEN AssemblyRejected(s1)
        ELSE [s1 EXCEPT !.pc = "assembling",
                        !.aux = [a \in AuxNames |-> "inflight"]]

\* ------------------------------------------------------------------ actions
\* What the pre-check of generateWithAI can say in this behaviour.
PreChecksNow ==
    {"ok"} \cup ({fault.kind} \cap {"ConfigurationError", "NetworkFailure"})

\* What the provider call can come back with in this behaviour.
GatewayOutcomes ==
    [kind : {"text"}, words : FullWordCounts] \cup
    [kind : {"text"},
     words : IF fault.kind = "ContentTooShort" THEN {fault.words} ELSE {}] \cup
    [kind : GatewayErrorKinds \cap {fault.kind}, words : {0}]

\* The model follows the job up to its first assembled document: no public
\* operation is started while one runs or after the book is assembled.  The
\* unit pipeline is followed for the roadmap of NumModules units.
Startable ==
    /\ pc = "idle"
    /\ finalBook = {}
    /\ roadmapRun.pc = "returned"
    /\ Len(roadmapRun.roadmap.modules) = NumModules

\* The unit operations can also be called on a job that has no roadmap:
\* before generateRoadmap was called and after it threw.
UnitsCallable ==
    \/ Startable
    \/ pc = "idle" /\ finalBook = {} /\ roadmapRun.pc \in {"none", "thrown"}

GenerateAllModulesWithRecovery ==
    /\ UnitsCallable
    /\ Len(FilterCompleted(modules))
         + Len(ModulesToGenerate(CompletedIdsAtEntry(loadCheckpoint(Cur),
                                                     FilterCompleted(modules))))
         <= MaxUnits
    /\ \E pre \in PreChecksNow : Set(GenAllEntry(Cur, pre))

RetryFailedModules ==
    /\ UnitsCallable
    /\ \E pre \in PreChecksNow : Set(RetryEntry(Cur, pre))

\* The provider call of the current unit settles: text or a thrown error.
GatewayReturns ==
    /\ pc = "inflight"
    /\ op \in {"generateAll", "retryFailed"}
    /\ \E o \in GatewayOutcomes :
          Set(IF o.kind = "text"
              THEN AttemptReturned(Cur, o.words)
              ELSE AttemptFailed(Cur, Err(o.kind)))

\* The requestTimeout timer fires: abort, the fetch rejects with AbortError.
RequestTimeout ==
    /\ pc = "inflight"
    /\ op \in {"generateAll", "retryFailed"}
    /\ fault.kind = "Aborted"
    /\ Set(AttemptFailed(Cur, Err("Aborted")))

\* sleep(delay) of the retry path is over: the recursive call.
BackoffElapsed ==
    /\ pc = "backoff"
    /\ \E pre \in PreChecksNow : Set(BeginAttempt(Cur, attemptNumber + 1, pre))

\* sleep(1000) after a unit is over: next loop iteration or the code after the loop.
InterUnitDelayElapsed ==
    /\ pc = "gap"
    /\ \E pre \in PreChecksNow :
          Set(IF i < Len(queue)
              THEN BeginAttempt([Cur EXCEPT !.i = i + 1], 1, pre)
              ELSE RetryFinish(Cur))

\* cancelActiveRequests(book.id) with a call registered for the job: the
\* call of the current unit is aborted.
CancelUnitCall ==
    /\ activeRequests
    /\ pc = "inflight"
    /\ op \in {"generateAll", "retryFailed"}
    /\ fault.kind = "Aborted"
    /\ Set(AttemptFailed([Cur EXCEPT !.cancelled = TRUE], Err("Aborted")))

\* cancelActiveRequests(book.id) with no call registered for the job: every
\* registered call is aborted (the auxiliary generations of an assembly are
\* registered under ids of their own).
CancelAuxiliaryCalls ==
    /\ ~activeRequests
    /\ pc = "assembling"
    /\ fault.kind = "Aborted"
    /\ Set(AssemblyRejected(Cur))

\* cancelActiveRequests(book.id).
CancelActiveRequests == CancelUnitCall \/ CancelAuxiliaryCalls

\* assembleFinalBook up to the await of Promise.all.
AssembleFinalBook ==
    /\ Startable
    /\ \E pre \in PreChecksNow : Set(AssembleEntry(Cur, pre))

\* One auxiliary generation returns its text.
AuxReturns ==
    /\ pc = "assembling"
    /\ \E a \in AuxNames :
          /\ aux[a] = "inflight"
          /\ Set(AuxReturned(Cur, a))

\* One auxiliary generation throws (provider error or timeout abort):
\* Promise.all rejects; calls still in flight are no longer awaited.
AuxFails ==
    /\ pc = "assembling"
    /\ fault.kind \in GatewayErrorKinds \cup {"Aborted"}
    /\ \E a \in AuxNames :
          /\ aux[a] = "inflight"
          /\ Set(AssemblyRejected(Cur))

\* ------------------------------------------------------------ generateRoadmap
\* The texts the provider can return to the roadmap prompt in this behaviour.
RoadmapTextsNow ==
    IF fault.kind = "MalformedResponse" THEN RoadmapTexts ELSE {WellFormedText}

\* Mutant: the catch block retries whatever the attempt counter says.
RoadmapAttemptFailed_RetriesAgain(s, e) ==
    [s EXCEPT !.roadmapRun.attempt = Min(@ + 1, maxAttempts),
              !.roadmapRun.pc = "sleep",
              !.activeRequests = FALSE]

\* The catch block: the last attempt reports the failure and throws, and
\* the caller's catch (handleCreateBookRoadmap) reports it once more; an
\* earlier attempt sleeps 2 s.
RoadmapAttemptFailed(s, e) ==
    LET n == s.roadmapRun.attempt + 1
        s1 == [s EXCEPT !.roadmapRun.attempt = n, !.activeRequests = FALSE]
    IN  IF n >= maxAttempts
        THEN [s1 EXCEPT !.roadmapRun.failedUpdates = @ + 1,
                        !.roadmapRun.pc = "thrown",
                        !.status = "error",
                        !.error = RoadmapFailedMessage]
        ELSE [s1 EXCEPT !.roadmapRun.pc = "sleep"]

\* The text was parsed: report the roadmap and return it.
RoadmapParsed(s, text, parsed) ==
    [s EXCEPT !.roadmapRun.readyUpdates = @ + 1,
              !.roadmapRun.pc = "returned",
              !.roadmapRun.roadmap = parsed,
              !.roadmapRun.rewritten =
                  \/ text.totalModules # Len(text.modules)
                  \/ \E k \in DOMAIN text.modules :
                         text.modules[k] # [id |-> k, order |-> k],
              !.activeRequests = FALSE,
              !.status = "roadmap_completed",
              !.progress = Pct(10),
              !.error = NoMessage]

\* The body of the try up to the await of the provider call.
RoadmapBeginAttempt(s, pre) ==
    LET s1 == [s EXCEPT !.roadmapRun.calls = @ + 1]
    IN  IF pre # "ok"
        THEN RoadmapAttemptFailed(s1, Err(pre))
        ELSE [s1 EXCEPT !.roadmapRun.pc = "inflight", !.activeRequests = TRUE]

\* generateRoadmap up to its first suspension point.
GenerateRoadmap ==
    /\ pc = "idle"
    /\ roadmapRun.pc = "none"
    /\ \E pre \in PreChecksNow :
          Set(RoadmapBeginAttempt(
                  [Cur EXCEPT !.status = "generating_roadmap",
                              !.progress = Pct(5),
                              !.error = NoMessage,
                              !.lastCall = "none",
                              !.roadmapRun.generatingUpdates = @ + 1],
                  pre))

\* The provider call of generateRoadmap settles, and the text is parsed.
RoadmapGatewayReturns ==
    /\ roadmapRun.pc = "inflight"
    /\ \E o \in GatewayOutcomes, text \in RoadmapTextsNow :
          LET parsed == parseRoadmapResponse(text)
          IN  Set(IF o.kind # "text" THEN RoadmapAttemptFailed(Cur, Err(o.kind))
                  ELSE IF parsed.error # "ok"
                       THEN RoadmapAttemptFailed(Cur, Err(parsed.error))
                  ELSE RoadmapParsed(Cur, text, parsed.roadmap))

\* The requestTimeout timer fires during the provider call of generateRoadmap.
RoadmapRequestTimeout ==
    /\ roadmapRun.pc = "inflight"
    /\ fault.kind = "Aborted"
    /\ Set(RoadmapAttemptFailed(Cur, Err("Aborted")))

\* sleep(2000) is over: the next iteration of the while loop.
RoadmapSleepElapsed ==
    /\ roadmapRun.pc = "sleep"
    /\ \E pre \in PreChecksNow : Set(RoadmapBeginAttempt(Cur, pre))

\* The page is reloaded: the service is constructed anew (empty checkpoint
\* map, no active request), every running operation is gone; the book kept
\* by the caller and the durable checkpoint slot survive.
Restart ==
    Set([Return(Cur) EXCEPT !.checkpoints = {}])

Next ==
    \/ GenerateAllModulesWithRecovery
    \/ RetryFailedModules
    \/ GatewayReturns
    \/ RequestTimeout
    \/ CancelActiveRequests
    \/ BackoffElapsed
    \/ InterUnitDelayElapsed
    \/ AssembleFinalBook
    \/ AuxReturns
    \/ AuxFails
    \/ Restart

Spec == Init /\ [][Next]_vars

\* The same service without page reloads: every call runs to its end.
NextCalls ==
    \/ GenerateAllModulesWithRecovery
    \/ RetryFailedModules
    \/ GatewayReturns
    \/ RequestTimeout
    \/ CancelActiveRequests
    \/ BackoffElapsed
    \/ InterUnitDelayElapsed
    \/ AssembleFinalBook
    \/ AuxReturns
    \/ AuxFails

SpecCalls == Init /\ [][NextCalls]_vars

\* The runs of generateAllModulesWithRecovery alone.
NextGenerateAll ==
    \/ GenerateAllModulesWithRecovery
    \/ GatewayReturns
    \/ RequestTimeout
    \/ CancelUnitCall
    \/ BackoffElapsed
    \/ InterUnitDelayElapsed

SpecGenerateAll == Init /\ [][NextGenerateAll]_vars

\* The event loop runs every timer that is due (the sleeps of the retry
\* backoff and between units end), and every call of generateWithAI settles
\* (its request timeout sees to that).
SpecGenerateAllFair ==
    /\ SpecGenerateAll
    /\ WF_vars(GatewayReturns)
    /\ WF_vars(BackoffElapsed)
    /\ WF_vars(InterUnitDelayElapsed)

\* The job from its creation by handleCreateBookRoadmap (status planning,
\* progress 0, no roadmap) through all its calls, without page reloads.
InitJob ==
    /\ modules = <<>>
    /\ status = "planning"
    /\ progress = Pct(0)
    /\ finalBook = {}
    /\ totalWords = 0
    /\ error = NoMessage
    /\ checkpoints = {}
    /\ localStorage = {}
    /\ activeRequests = FALSE
    /\ pc = "idle"
    /\ op = "none"
    /\ queue = <<>>
    /\ i = 0
    /\ attemptNumber = 0
    /\ completedModules = <<>>
    /\ completedModuleIds = {}
    /\ failedModuleIds = {}
    /\ aux = AuxIdle
    /\ fault \in Faults
    /\ lastError = NoError
    /\ invoked = {}
    /\ entry = NoEntry
    /\ cancelled = FALSE
    /\ allRetryable = TRUE
    /\ storeHistory = NoStoreHistory
    /\ roadmapRun = NoRoadmapRun
    /\ gatewayCall = NoGatewayCall
    /\ delay = 0
    /\ lastCall = "none"
    /\ requestTable = [j \in JobIds |-> NoCall]
    /\ logger = NewLogger

NextJob ==
    \/ GenerateRoadmap
    \/ RoadmapGatewayReturns
    \/ RoadmapRequestTimeout
    \/ RoadmapSleepElapsed
    \/ NextCalls

SpecJob == InitJob /\ [][NextJob]_vars

\* ------------------------------------------------------------------------
\* One call of generateWithAI with generateWithGoogle of the second class,
\* request by request.
\* ------------------------------------------------------------------------
\* What an HTTP request can come back with: a 200 response with text, a 429
\* or 503 response, a 401 (invalid credential) or 500 response, a 200
\* response without text, or a rejected fetch (network error).
Responses == {"ok", "429", "503", "401", "500", "noText", "networkError"}
OverloadedResponses == {"429", "503"}

\* finally: the timer is cleared and the call unregistered.
GwEnd(s, how, result) ==
    [s EXCEPT !.gatewayCall.pc = how,
              !.gatewayCall.result = result,
              !.gatewayCall.timer = FALSE,
              !.activeRequests = FALSE]

\* The top of the while loop with attempt < maxRetries: fetch.  With the
\* signal already aborted fetch rejects at once and nothing is sent.
GwFetch(s) ==
    IF s.gatewayCall.aborted
    THEN GwEnd(s, "thrown", "AbortError")
    ELSE [s EXCEPT !.gatewayCall.pc = "fetch",
                   !.gatewayCall.requests = @ + 1,
                   !.gatewayCall.retriedAfter =
                       IF s.gatewayCall.requests > 0
                       THEN @ \cup {s.gatewayCall.last}
                       ELSE @]

\* The catch block of the provider function for an error that is not an
\* AbortError: count the attempt, throw at the last one, else sleep.
GwCatch(s, r) ==
    LET n == s.gatewayCall.attempt + 1
        s1 == [s EXCEPT !.gatewayCall.attempt = n, !.gatewayCall.last = r]
    IN  IF n >= maxRetries
        THEN GwEnd(s1, "thrown", r)
        ELSE [s1 EXCEPT !.gatewayCall.pc = "sleepError"]

\* The request came back with r.
GwResponse(s, r) ==
    IF r \in OverloadedResponses
    THEN [s EXCEPT !.gatewayCall.pc = "sleep429", !.gatewayCall.last = r]
    ELSE IF r = "ok"
    THEN GwEnd([s EXCEPT !.gatewayCall.last = r], "returned", "text")
    ELSE GwCatch(s, r)

\* A sleep of the provider function is over.
GwAfterSleep(s) ==
    IF s.gatewayCall.pc = "sleep429"
    THEN LET s1 == [s EXCEPT !.gatewayCall.attempt = @ + 1]
         IN  IF s1.gatewayCall.attempt < maxRetries
             THEN GwFetch(s1)
             ELSE GwEnd(s1, "thrown", "FailedAfterRetries")
    ELSE GwFetch(s)

\* Mutant: the timer only unregisters the call, the signal is not aborted.
GwTimerFired_NoAbort(s) ==
    [s EXCEPT !.gatewayCall.timer = FALSE, !.activeRequests = FALSE]

\* The requestTimeout timer fires: abort the signal and unregister the
\* call; a pending fetch rejects with an AbortError, which the provider
\* function rethrows.
GwTimerFired(s) ==
    LET s1 == [s EXCEPT !.gatewayCall.aborted = TRUE,
                        !.gatewayCall.timer = FALSE,
                        !.activeRequests = FALSE]
    IN  IF s.gatewayCall.pc = "fetch"
        THEN GwEnd(s1, "thrown", "AbortError")
        ELSE s1

\* generateWithAI up to the first await of the provider function.
GwStart ==
    /\ gatewayCall.pc = "none"
    /\ \E pre \in PreChecksNow :
          Set(IF pre # "ok"
              THEN [Cur EXCEPT !.gatewayCall.pc = "thrown",
                               !.gatewayCall.result = pre]
              ELSE GwFetch([Cur EXCEPT !.gatewayCall.timer = TRUE,
                                       !.activeRequests = TRUE]))

GwRequestSettles ==
    /\ gatewayCall.pc = "fetch"
    /\ \E r \in Responses : Set(GwResponse(Cur, r))

GwSleepElapsed ==
    /\ gatewayCall.pc \in {"sleep429", "sleepError"}
    /\ Set(GwAfterSleep(Cur))

GwRequestTimeout ==
    /\ gatewayCall.timer
    /\ Set(GwTimerFired(Cur))

NextGateway ==
    \/ GwStart
    \/ GwRequestSettles
    \/ GwSleepElapsed
    \/ GwRequestTimeout

SpecGateway == Init /\ [][NextGateway]_vars

\* The event loop runs every timer that is due: the sleeps end and the
\* request timeout fires unless it was cleared.  Nothing makes a request
\* settle.
SpecGatewayFair ==
    /\ SpecGateway
    /\ WF_vars(GwSleepElapsed)
    /\ WF_vars(GwRequestTimeout)

\* ------------------------------------------------------------------------
\* The logger on its own.
\* ------------------------------------------------------------------------
\* this.listeners.forEach(listener => listener([...this.logs])): every
\* element of the list is called with the contents of logs.
notifyListeners(g, call) ==
    [g EXCEPT !.last = call,
              !.received = [l \in ListenerIds |->
                  Cardinality({k \in DOMAIN g.listeners : g.listeners[k] = l})],
              !.delivered = g.logs]

\* addLog: unshift the entry, keep the first maxLogs, notify.
addLog(g, level) ==
    LET newEntry == g.calls + 1
        unshifted == <<newEntry>> \o g.logs
        kept == IF Len(unshifted) > maxLogs
                THEN SubSeq(unshifted, 1, maxLogs)
                ELSE unshifted
    IN  notifyListeners([g EXCEPT !.logs = kept, !.calls = newEntry], level)

\* logger.info, logger.warn, logger.error or logger.debug.
LoggerLog ==
    /\ logger.calls < MaxLogCalls
    /\ \E level \in Levels : Set([Cur EXCEPT !.logger = addLog(logger, level)])

\* logger.clear().
LoggerClear ==
    Set([Cur EXCEPT !.logger =
            notifyListeners([logger EXCEPT !.logs = <<>>], "clear")])

\* logger.subscribe(l): the function is pushed onto the list.
LoggerSubscribe ==
    /\ Len(logger.listeners) < MaxListeners
    /\ \E l \in ListenerIds :
          Set([Cur EXCEPT !.logger.listeners = Append(@, l),
                          !.logger.last = "subscribe"])

\* The function returned by subscribe(l) is called: every element equal to
\* l is filtered out.
LoggerUnsubscribe ==
    \E l \in ListenerIds :
       /\ \E k \in DOMAIN logger.listeners : logger.listeners[k] = l
       /\ Set([Cur EXCEPT !.logger.listeners = SelectSeq(@, LAMBDA x : x # l),
                           !.logger.last = "unsubscribe"])

NextLogger ==
    \/ LoggerLog
    \/ LoggerClear
    \/ LoggerSubscribe
    \/ LoggerUnsubscribe

InitLogger == Init /\ fault.kind = "Aborted"

SpecLogger == InitLogger /\ [][NextLogger]_vars

\* ------------------------------------------------------------------------
\* The active-request table with the calls of several jobs.
\* ------------------------------------------------------------------------
Unsettled == {"fetch", "sleep"}

\* abortController.abort() on the controller of call c.
Abort(c, by) ==
    [c EXCEPT !.aborted = TRUE,
              !.abortedBy = IF c.aborted THEN @ ELSE by]

\* finally: clearTimeout(timeoutId); activeRequests.delete(requestId).
CallEnds(c, how) ==
    [c EXCEPT !.pc = how, !.timer = FALSE, !.registered = FALSE]

\* generateWithAI(prompt, j) up to the await of the provider function.
CallGenerateWithAI(j) ==
    /\ requestTable[j].pc \notin Unsettled
    /\ \E pre \in {"ok", "ConfigurationError", "NetworkFailure"} :
          Set([Cur EXCEPT !.requestTable[j] =
                  IF pre # "ok"
                  THEN [NoCall EXCEPT !.pc = "rejected"]
                  ELSE [NoCall EXCEPT !.pc = "fetch", !.registered = TRUE,
                                      !.timer = TRUE]])

\* The HTTP request of the call settles: with the signal aborted the fetch
\* rejects with an AbortError, which the provider function rethrows; else
\* a text ends the call, a 429 starts a sleep while attempts are left, and
\* any other failure is thrown in the end.
CallRequestSettles(j) ==
    /\ requestTable[j].pc = "fetch"
    /\ \E r \in {"text", "overloaded", "error"} :
          LET c == requestTable[j]
          IN  Set([Cur EXCEPT !.requestTable[j] =
                      IF c.aborted THEN CallEnds(c, "thrown")
                      ELSE IF r = "text" THEN CallEnds(c, "returned")
                      ELSE IF r = "overloaded" /\ c.attempt + 1 < maxRetries
                           THEN [c EXCEPT !.pc = "sleep", !.attempt = @ + 1]
                      ELSE CallEnds(c, "thrown")])

\* The sleep of the provider function is over: the next fetch.
CallSleepElapsed(j) ==
    /\ requestTable[j].pc = "sleep"
    /\ Set([Cur EXCEPT !.requestTable[j].pc = "fetch"])

\* The timeout callback of the call: abort and unregister.
CallTimerFires(j) ==
    /\ requestTable[j].timer
    /\ Set([Cur EXCEPT !.requestTable[j] =
                [Abort(@, "timeout") EXCEPT !.timer = FALSE,
                                            !.registered = FALSE]])

\* cancelActiveRequests(j): with a controller registered under j, that one
\* is aborted and unregistered; else every registered controller is.
CancelRequestsOf(j) ==
    Set([Cur EXCEPT !.requestTable =
            IF requestTable[j].registered
            THEN [@ EXCEPT ![j] = [Abort(@, "cancel") EXCEPT !.registered = FALSE]]
            ELSE [k \in JobIds |->
                     IF requestTable[k].registered
                     THEN [Abort(requestTable[k], "cancelOther")
                             EXCEPT !.registered = FALSE]
                     ELSE requestTable[k]]])

\* cancelActiveRequests(): every registered controller is aborted and the
\* table cleared.
CancelAllRequests ==
    Set([Cur EXCEPT !.requestTable =
            [k \in JobIds |->
                IF requestTable[k].registered
                THEN [Abort(requestTable[k], "cancelAll") EXCEPT !.registered = FALSE]
                ELSE requestTable[k]]])

NextRequests ==
    \/ \E j \in JobIds : CallGenerateWithAI(j)
    \/ \E j \in JobIds : CallRequestSettles(j)
    \/ \E j \in JobIds : CallSleepElapsed(j)
    \/ \E j \in JobIds : CallTimerFires(j)
    \/ \E j \in JobIds : CancelRequestsOf(j)
    \/ CancelAllRequests

InitRequests == Init /\ fault.kind = "Aborted"

SpecRequests == InitRequests /\ [][NextRequests]_vars

\* ------------------------------------------------------------------------
\* The checkpoint store on its own: saves with any two disjoint sets of
\* planned unit ids, with a localStorage write that goes through or throws,
\* clears and page reloads, in any order.
\* ------------------------------------------------------------------------
CheckpointArgs ==
    {c \in [completedModuleIds : SUBSET PlanIds, failedModuleIds : SUBSET PlanIds,
            lastSuccessfulIndex : {0, NumModules - 1}] :
        c.completedModuleIds \cap c.failedModuleIds = {}}

StoreSave ==
    \E c \in CheckpointArgs, writeOk \in BOOLEAN :
        Set([(IF writeOk
              THEN saveCheckpoint(Cur, c.completedModuleIds, c.failedModuleIds,
                                  c.lastSuccessfulIndex)
              ELSE saveCheckpointWriteFails(Cur, c.completedModuleIds,
                                            c.failedModuleIds,
                                            c.lastSuccessfulIndex))
             EXCEPT !.storeHistory =
                       [saved |-> {c},
                        durable |-> IF writeOk THEN {c} ELSE @.durable,
                        cleared |-> FALSE,
                        removed |-> {}]])

StoreClear ==
    Set([clearCheckpoint(Cur) EXCEPT
            !.storeHistory = [saved |-> {}, durable |-> {}, cleared |-> TRUE,
                              removed |-> checkpoints \cup localStorage]])

\* A page reload: a new service object with an empty checkpoint map.
StoreRestart ==
    Set([Cur EXCEPT !.checkpoints = {}, !.storeHistory.saved = {}])

NextStore ==
    \/ StoreSave
    \/ StoreClear
    \/ StoreRestart

\* The store does not depend on how the provider fails.
InitStore == Init /\ fault.kind = "NetworkFailure"

SpecStore == InitStore /\ [][NextStore]_vars

\* ------------------------------------------------------------------------
\* The first class of bookService.ts (no retry, no checkpoint) as driven by
\* handleGenerateAllModules of App.tsx.
\* ------------------------------------------------------------------------
\* generateWithAI of the first class turns an AbortError into a
\* "Request timed out" error.
LegacyError(kind) ==
    IF kind = "Aborted" THEN Err("RequestTimedOut") ELSE Err(kind)

\* handleGenerateAllModules after generateModuleContent returned newModule:
\* push it and report the list and the progress.
LegacyPush(s, newModule) ==
    [s EXCEPT !.completedModules = Append(@, newModule),
              !.modules = Append(s.completedModules, newModule),
              !.progress = Pct(10) + s.i * 80,
              !.activeRequests = FALSE,
              !.i = @ + 1]

\* The loop of handleGenerateAllModules from unit s.i on, up to the next
\* suspension point: generateModuleContent catches a failed pre-check and
\* returns an error unit at once, so the loop goes on without suspending.
RECURSIVE LegacyLoop(_, _)
LegacyLoop(s, pre) ==
    IF s.i > Len(s.queue)
    THEN Return([s EXCEPT !.status = "roadmap_completed"])
    ELSE IF pre # "ok"
    THEN LegacyLoop(LegacyPush(s, ErrorModule(s.queue[s.i], LegacyError(pre))), pre)
    ELSE [s EXCEPT !.pc = "inflight", !.activeRequests = TRUE]

\* book.roadmap.modules.filter(rm => !book.modules.find(m => ... completed))
LegacyModulesToGenerate(ms) ==
    SelectSeq(roadmap, LAMBDA u : u \notin RoadmapIdsOf(FilterCompleted(ms)))

LegacyEntry(s, pre) ==
    LegacyLoop([s EXCEPT !.op = "legacy", !.status = "generating_content",
                         !.error = NoMessage,
                         !.queue = LegacyModulesToGenerate(s.modules),
                         !.i = 1,
                         !.completedModules = s.modules],
               pre)

\* handleGenerateAllModules; isOnline of the App must hold.
HandleGenerateAllModules ==
    /\ Startable
    /\ Len(modules) + Len(LegacyModulesToGenerate(modules)) <= MaxUnits
    /\ \E pre \in PreChecksNow : Set(LegacyEntry(Cur, pre))

\* generateModuleContent: the provider call settles.  Any text is accepted
\* (a text under 500 words is only logged), any error gives an error unit.
LegacyGatewayReturns ==
    /\ pc = "inflight"
    /\ op = "legacy"
    /\ \E o \in GatewayOutcomes, pre \in PreChecksNow :
          Set(LegacyLoop(
                LegacyPush(Cur,
                    IF o.kind = "text"
                    THEN CompletedModule(queue[i], o.words)
                    ELSE ErrorModule(queue[i], LegacyError(o.kind))),
                pre))

\* Timeout or cancelActiveRequests(book.id) aborts the call.
LegacyRequestAborted ==
    /\ pc = "inflight"
    /\ op = "legacy"
    /\ fault.kind = "Aborted"
    /\ \E pre \in PreChecksNow :
          Set(LegacyLoop(LegacyPush(Cur, ErrorModule(queue[i], LegacyError("Aborted"))),
                         pre))

NextLegacy ==
    \/ HandleGenerateAllModules
    \/ LegacyGatewayReturns
    \/ LegacyRequestAborted
    \/ Restart

SpecLegacy == Init /\ [][NextLegacy]_vars

\* ------------------------------------------------------------------------
\* Properties
\* ------------------------------------------------------------------------
Last(seq) == seq[Len(seq)]

\* ms is one completed unit per planned unit, in plan order.
AllUnitsOnceInPlanOrder(ms) ==
    /\ Len(ms) = NumModules
    /\ \A k \in DOMAIN ms : IsCompleted(ms[k]) /\ ms[k].roadmapModuleId = roadmap[k]

\* Every planned unit has a completed unit in ms.
AllPlannedCompleted(ms) ==
    PlanIds \subseteq RoadmapIdsOf(FilterCompleted(ms))

\* A step in which a run of generateAllModulesWithRecovery that generated
\* units ends with the ready-for-assembly report (no error-status unit).
GenAllEndsClean ==
    /\ op = "generateAll"
    /\ pc \in {"inflight", "backoff"}
    /\ pc' = "idle"
    /\ status' = "roadmap_completed"

\* A step in which generateModuleContentWithRetry returns a unit to the
\* running operation (the unit is then the last one of the reported list).
UnitReturned ==
    /\ op \in {"generateAll", "retryFailed"}
    /\ pc \in {"inflight", "backoff"}
    /\ \/ pc' = "gap"
       \/ pc' = "idle" /\ status' # status

\* The number of the attempt that ends in a UnitReturned step.
AttemptsMade == IF pc = "backoff" THEN attemptNumber + 1 ELSE attemptNumber

\* C1: when generateAllModulesWithRecovery finishes with no error-status
\* unit, the unit list it reports has exactly NumModules entries, all
\* completed, one per planned unit, in roadmap plan order.
C1_CleanRunReportsPlan ==
    [][GenAllEndsClean => AllUnitsOnceInPlanOrder(modules')]_vars

\* C2: in a run of generateAllModulesWithRecovery that found a checkpoint,
\* the units to generate are the planned units the checkpoint does not record
\* as completed, in plan order, and generateWithAI has been called for the
\* first i of them only: never for a unit the checkpoint records as completed.
C2_ResumeSkipsCheckpointed ==
    (op = "generateAll" /\ entry.hadCheckpoint) =>
        /\ invoked \cap entry.checkpointCompleted = {}
        /\ queue = SelectSeq(roadmap, LAMBDA u : u \notin entry.checkpointCompleted)
        /\ invoked = {queue[k] : k \in 1..i}

\* C2 witness: the checkpoint recorded unit 1 completed and unit 2 failed,
\* unit 3 was never attempted; the run has attempted 2 and is now calling
\* the provider for 3.
C2_Witness ==
    /\ op = "generateAll"
    /\ entry.hadCheckpoint
    /\ entry.checkpointCompleted = {1}
    /\ entry.checkpointFailed = {2}
    /\ queue = <<2, 3>>
    /\ i = 2
    /\ pc = "inflight"
    /\ invoked = {2, 3}

\* C3: generateAllModulesWithRecovery never calls the provider for a planned
\* unit that had a completed unit in the job's list at its entry, checkpoint
\* or not.
C3_CompletedInJobNotRegenerated ==
    op = "generateAll" => invoked \cap entry.jobCompleted = {}

\* C4: the job's unit list holds at most one unit per planned unit.
C4_OneUnitPerPlannedUnit ==
    \A j, k \in DOMAIN modules :
        modules[j].roadmapModuleId = modules[k].roadmapModuleId => j = k

\* C5: the unit contents of the assembled document appear in plan order.
C5_DocumentInPlanOrder ==
    \A doc \in finalBook :
        LET contents == SelectSeq(doc, LAMBDA c : c # 0)
        IN  \A j, k \in DOMAIN contents : j < k => contents[j] <= contents[k]

\* C6: generateAllModulesWithRecovery called with no checkpoint and every
\* planned unit completed in the job's list changes nothing but status and
\* progress: no provider call is registered or pending, no checkpoint is
\* written, the unit list is the same, and the call has ended with status
\* roadmap_completed at progress 90.
C6_RepeatedRunIsNoOp ==
    [][(/\ checkpoints = {}
        /\ localStorage = {}
        /\ AllPlannedCompleted(modules)
        /\ GenerateAllModulesWithRecovery)
       => (/\ modules' = modules
           /\ checkpoints' = {}
           /\ localStorage' = {}
           /\ pc' = "idle"
           /\ ~activeRequests'
           /\ invoked' = {}
           /\ status' = "roadmap_completed"
           /\ progress' = Pct(90))]_vars

\* C6 witness: the state a fully successful run leaves and in which the
\* repeated call starts and ends.
C6_Witness ==
    /\ pc = "idle"
    /\ checkpoints = {}
    /\ localStorage = {}
    /\ AllPlannedCompleted(modules)
    /\ Len(modules) = NumModules
    /\ status = "roadmap_completed"
    /\ progress = Pct(90)

\* C7: a unit whose every attempt failed with a retryable error is returned
\* as an error unit after exactly 5 attempts.
C7_FiveAttemptsBeforeError ==
    [][(/\ UnitReturned
        /\ IsError(Last(modules'))
        /\ allRetryable
        /\ Last(modules').error.kind \in RetryableKinds)
       => AttemptsMade = DisplayedRetryLimit]_vars

\* C8: no retry is scheduled after a ConfigurationError, InvalidCredential,
\* MalformedResponse or Unsupported failure.
C8_FatalErrorsNotRetried ==
    pc = "backoff" =>
        lastError.kind \notin {"ConfigurationError", "InvalidCredential",
                               "MalformedResponse", "Unsupported"}

\* C9: once cancelActiveRequests has aborted a call of the current unit, the
\* running operation neither schedules a retry nor calls the provider again
\* for that unit.
C9_CancelIsHardStop ==
    cancelled => pc \notin {"backoff", "inflight"}

\* C10: no completed unit of the job has fewer than 300 words.
C10_NoShortCompletedUnit ==
    \A k \in DOMAIN modules :
        IsCompleted(modules[k]) => modules[k].wordCount >= MinWords

\* The error every failed attempt of this behaviour raises.
FaultError ==
    IF fault.kind = "ContentTooShort" THEN TooShort(fault.words)
    ELSE Err(fault.kind)

\* A step that ends the last attempt MAX_MODULE_RETRIES of the current unit.
LastAttemptEnds ==
    /\ op \in {"generateAll", "retryFailed"}
    /\ pc \in {"inflight", "backoff"}
    /\ AttemptsMade = MAX_MODULE_RETRIES
    /\ pc' # "inflight"

\* C11: when the last attempt of a unit ends, the operation goes on with a
\* unit for that planned unit at the end of the reported list: a completed
\* unit, or an error unit with empty content, word count 0 and the error of
\* the attempt; the failure is never thrown out of the running operation.
C11_ExhaustedBudgetReturnsErrorUnit ==
    [][LastAttemptEnds =>
        /\ Len(modules') > 0
        /\ \/ IsCompleted(Last(modules'))
           \/ Last(modules') = [roadmapModuleId |-> queue[i], content |-> 0,
                                wordCount |-> 0, status |-> "error",
                                error |-> FaultError]
        /\ Last(modules').roadmapModuleId = queue[i]
        /\ \/ pc' = "gap"
           \/ pc' = "idle" /\ op = "generateAll" /\ i = Len(queue)]_vars

\* C11 witness: the third attempt of a unit has failed, its error unit is
\* the last unit of the reported list and the operation goes on.
C11_Witness ==
    /\ pc = "gap"
    /\ attemptNumber = MAX_MODULE_RETRIES
    /\ Len(modules) > 0
    /\ IsError(Last(modules))
    /\ Last(modules).roadmapModuleId = queue[i]
    /\ Last(modules).error = lastError
    /\ lastError.kind # "none"

\* C12: a run of generateAllModulesWithRecovery ends only after it has
\* called the provider for every unit of its list, which is in plan order,
\* and the list it reports holds, after the units completed before the run,
\* one unit per unit of the list in that order, error units included.
C12_FailureDoesNotAbortRun ==
    [][(op = "generateAll" /\ pc # "idle" /\ pc' = "idle") =>
        LET base == Len(FilterCompleted(entry.jobUnits))
        IN  /\ i = Len(queue)
            /\ invoked = {queue[k] : k \in 1..Len(queue)}
            /\ \A j, k \in 1..Len(queue) : j < k => queue[j] < queue[k]
            /\ Len(modules') = base + Len(queue)
            /\ \A k \in 1..Len(queue) :
                   modules'[base + k].roadmapModuleId = queue[k]]_vars

\* C12 witness: the first unit of the run failed for good, its error unit is
\* in the reported list, and the run is calling the provider for the next.
C12_Witness ==
    /\ op = "generateAll"
    /\ pc = "inflight"
    /\ i = 2
    /\ Len(modules) > 0
    /\ IsError(Last(modules))
    /\ Last(modules).roadmapModuleId = queue[1]
    /\ invoked = {queue[1], queue[2]}

\* A step in which a run of generateAllModulesWithRecovery that generated
\* units ends with an error-status unit in the list it reports.
GenAllEndsWithFailures ==
    /\ op = "generateAll"
    /\ pc \in {"inflight", "backoff"}
    /\ pc' = "idle"
    /\ \E k \in DOMAIN modules' : IsError(modules'[k])

\* C13: when generateAllModulesWithRecovery ends with an error-status unit,
\* its final update has status error and the message with the numbers of
\* failed and of completed units, and the job's checkpoint exists, in memory
\* and in localStorage, with every failed planned unit of the reported list
\* in its failed set and every completed one in its completed set.
C13_FailedRunKeepsCheckpoint ==
    [][GenAllEndsWithFailures =>
        /\ status' = "error"
        /\ error' = [kind |-> "GenerationCompletedWithFailures",
                     failed |-> Len(FilterError(modules')),
                     generated |-> Len(FilterCompleted(modules'))]
        /\ checkpoints' # {}
        /\ localStorage' # {}
        /\ \A c \in checkpoints' \cup localStorage' :
              /\ RoadmapIdsOf(FilterError(modules')) \subseteq c.failedModuleIds
              /\ RoadmapIdsOf(FilterCompleted(modules')) \subseteq c.completedModuleIds]_vars

\* A step in which generateAllModulesWithRecovery emits its last update and
\* that update is ready-for-assembly (roadmap_completed at progress 90):
\* after the loop, or on the nothing-to-generate path.
GenAllReportsReady ==
    /\ \/ op = "generateAll" /\ pc \in {"inflight", "backoff"}
       \/ GenerateAllModulesWithRecovery
    /\ pc' = "idle"
    /\ status' = "roadmap_completed"
    /\ progress' = Pct(90)

RetryReportsReady ==
    /\ op = "retryFailed"
    /\ pc = "gap"
    /\ pc' = "idle"
    /\ status' = "roadmap_completed"
    /\ progress' = Pct(90)

\* C15: after a ready-for-assembly update of generateAllModulesWithRecovery
\* or retryFailedModules the job's unit list holds a completed unit for every
\* planned unit and no error-status unit.
C15_ReadyMeansAllCompleted ==
    [][(GenAllReportsReady \/ RetryReportsReady) =>
        /\ AllPlannedCompleted(modules')
        /\ \A k \in DOMAIN modules' : ~IsError(modules'[k])]_vars

\* The step in which retryFailedModules emits its last update.
RetryEnds ==
    /\ op = "retryFailed"
    /\ pc = "gap"
    /\ pc' = "idle"
    /\ i = Len(queue)

\* C16: when retryFailedModules has regenerated every error-status unit of
\* the job successfully, its final update reports a completed unit for every
\* planned unit and ready-for-assembly at progress 90, and the checkpoint is
\* cleared.
C16_RetryAllFixedIsReady ==
    [][(RetryEnds /\ \A k \in DOMAIN completedModules :
                        IsCompleted(completedModules[k])) =>
        /\ AllPlannedCompleted(modules')
        /\ \A k \in DOMAIN modules' : IsCompleted(modules'[k])
        /\ status' = "roadmap_completed"
        /\ progress' = Pct(90)
        /\ checkpoints' = {}
        /\ localStorage' = {}]_vars

\* The number of units of ms for planned unit u.
UnitsFor(ms, u) ==
    Cardinality({k \in DOMAIN ms : ms[k].roadmapModuleId = u})

\* C17: retryFailedModules calls the provider only for planned units whose
\* unit had error status at its entry, every unit starting at attempt 1; the
\* list of its final update keeps every unit that was completed at entry and
\* holds exactly one unit for each planned unit that had failed; if units
\* remain failed the update has status error and their number.
C17_RetryOnlyFailedKeepsAll ==
    [][/\ (op' = "retryFailed") => (invoked' \subseteq entry'.jobFailed)
       /\ (op' = "retryFailed" /\ i' # i) => (attemptNumber' = 1)
       /\ RetryEnds =>
            LET kept == FilterCompleted(entry.jobUnits)
                remain == Len(FilterError(modules'))
            IN  /\ Len(modules') >= Len(kept)
                /\ \A k \in DOMAIN kept : modules'[k] = kept[k]
                /\ \A u \in entry.jobFailed : UnitsFor(modules', u) = 1
                /\ remain > 0 =>
                      /\ status' = "error"
                      /\ error' = [kind |-> "StillFailedAfterRetry",
                                   failed |-> remain, generated |-> 0]]_vars

\* A step in which an auxiliary generation of a running assembleFinalBook
\* throws: its provider call fails or times out, its pre-check throws, or
\* its request is cancelled.
AssemblyFails ==
    \/ AuxFails
    \/ CancelActiveRequests /\ pc = "assembling"
    \/ AssembleFinalBook /\ pc' = "idle"

\* C18: when one of the three auxiliary generations of assembleFinalBook
\* fails, the call ends there, the job's last update has status error with
\* the assembly-failed message, and the call has set neither a final
\* document nor a total word count nor the status completed.
C18_AuxFailureRejectsAssembly ==
    [][AssemblyFails =>
        /\ pc' = "idle"
        /\ op' = "none"
        /\ status' = "error"
        /\ error' = AssemblyFailedMessage
        /\ finalBook' = {}
        /\ totalWords' = 0]_vars

\* An assembly of a job with all its units completed was rejected.
C18_Witness ==
    /\ pc = "idle"
    /\ status = "error"
    /\ error = AssemblyFailedMessage
    /\ progress = Pct(90)
    /\ finalBook = {}
    /\ AllPlannedCompleted(modules)

\* The job is ready for assembly: a completed unit for every planned unit
\* and no error unit.
ReadyForAssembly(ms) ==
    /\ AllPlannedCompleted(ms)
    /\ \A k \in DOMAIN ms : IsCompleted(ms[k])

\* C19: a final document (and the status completed that comes with it) is
\* only ever produced for a job that is ready for assembly.
C19_AssemblyRequiresReadyJob ==
    (finalBook # {} \/ status = "completed") => ReadyForAssembly(modules)

\* The sum of the word counts of the units at the positions S of ms.
RECURSIVE WordsOfUnits(_, _)
WordsOfUnits(ms, S) ==
    IF S = {} THEN 0
    ELSE LET k == CHOOSE x \in S : TRUE
         IN  ms[k].wordCount + WordsOfUnits(ms, S \ {k})

\* The step in which assembleFinalBook sets the final document.
AssemblySucceeds == pc = "assembling" /\ finalBook' # {}

StoredCheckpoints == checkpoints \cup localStorage

\* A step in which generateAllModulesWithRecovery records a completed unit
\* for planned unit u.
GenAllCompletes(u) ==
    /\ op = "generateAll"
    /\ pc = "inflight"
    /\ queue[i] = u
    /\ Len(modules') > 0
    /\ Last(modules') = CompletedModule(u, Last(modules').wordCount)
    /\ modules' # modules

\* C21: in every stored checkpoint the completed set and the failed set are
\* disjoint sets of planned unit ids; and when a unit of the failed set
\* completes, the checkpoint saved in that step has it in the completed set
\* and no longer in the failed set.
C21_CheckpointSetsDisjoint ==
    [][\A c \in checkpoints' \cup localStorage' :
          /\ c.completedModuleIds \cap c.failedModuleIds = {}
          /\ c.completedModuleIds \subseteq PlanIds
          /\ c.failedModuleIds \subseteq PlanIds
          /\ \A u \in PlanIds :
                (GenAllCompletes(u) /\ \E c0 \in StoredCheckpoints :
                                          u \in c0.failedModuleIds)
                => (u \in c.completedModuleIds /\ u \notin c.failedModuleIds)]_vars

\* A resumed run has completed a unit that the checkpoint it started from
\* had in its failed set, and the checkpoint now has it as completed.
C21_Witness ==
    /\ op = "generateAll"
    /\ pc = "gap"
    /\ \E c \in checkpoints : \E u \in entry.checkpointFailed :
          /\ u \in c.completedModuleIds
          /\ u \notin c.failedModuleIds
          /\ c.failedModuleIds # {}

\* The current unit of planned unit u in ms, the last one for u, has error
\* status.
CurrentUnitIsError(ms, u) ==
    \E k \in DOMAIN ms :
        /\ ms[k].roadmapModuleId = u
        /\ IsError(ms[k])
        /\ \A j \in DOMAIN ms : j > k => ms[j].roadmapModuleId # u

\* C22: whenever a checkpoint exists and no unit call is in flight, its
\* completed set is the set of planned units with a completed unit in the
\* job's list and its failed set the set of planned units whose current unit
\* has error status.
C22_CheckpointMirrorsUnitList ==
    (StoredCheckpoints # {} /\ pc # "inflight") =>
        \A c \in StoredCheckpoints : \A u \in PlanIds :
            /\ u \in c.completedModuleIds
                  <=> u \in RoadmapIdsOf(FilterCompleted(modules))
            /\ u \in c.failedModuleIds <=> CurrentUnitIsError(modules, u)

RoadmapThrows == roadmapRun.pc \in {"none", "inflight", "sleep"} /\ roadmapRun'.pc = "thrown"

\* A step in which the call of generateRoadmap ends by returning the roadmap.
RoadmapReturns == roadmapRun.pc \in {"none", "inflight", "sleep"} /\ roadmapRun'.pc = "returned"

\* C25: generateRoadmap calls the provider gateway at most twice; it reports
\* generating_roadmap at 5 on entry; when it returns it has reported
\* roadmap_completed at 10 and no failure; when it throws it has failed
\* twice, has reported exactly one update with status error and never
\* roadmap_completed.
C25_RoadmapTwoAttempts ==
    [][/\ roadmapRun'.calls <= maxAttempts
       /\ (roadmapRun.pc = "none" /\ roadmapRun'.pc # "none") =>
             /\ roadmapRun'.generatingUpdates = 1
             /\ (roadmapRun'.pc \in {"inflight", "sleep"}) =>
                   (status' = "generating_roadmap" /\ progress' = Pct(5))
       /\ RoadmapReturns =>
             /\ status' = "roadmap_completed"
             /\ progress' = Pct(10)
             /\ roadmapRun'.readyUpdates = 1
             /\ roadmapRun'.failedUpdates = 0
       /\ RoadmapThrows =>
             /\ roadmapRun'.calls = maxAttempts
             /\ roadmapRun'.attempt = maxAttempts
             /\ roadmapRun'.failedUpdates = 1
             /\ roadmapRun'.readyUpdates = 0
             /\ status' = "error"
       /\ roadmapRun'.generatingUpdates <= 1
       /\ roadmapRun'.readyUpdates + roadmapRun'.failedUpdates <= 1]_vars

\* Both attempts of generateRoadmap failed and it threw.
C25_Witness ==
    /\ roadmapRun.pc = "thrown"
    /\ roadmapRun.calls = 2
    /\ roadmapRun.failedUpdates = 1
    /\ roadmapRun.readyUpdates = 0
    /\ status = "error"
    /\ error = RoadmapFailedMessage

\* A step in which a running generateAllModulesWithRecovery or
\* retryFailedModules goes on to its next unit.
NextUnitStarts ==
    /\ op \in {"generateAll", "retryFailed"}
    /\ op' = op
    /\ i >= 1
    /\ i' = i + 1

\* The outcome of the unit at position i of the run is on record: its unit
\* is the last of the reported list and, in generateAllModulesWithRecovery,
\* the checkpoint has its id in the set that goes with its status.
OutcomeRecorded ==
    /\ Len(modules) > 0
    /\ modules = completedModules
    /\ Last(modules).roadmapModuleId = queue[i]
    /\ op = "generateAll" =>
          /\ checkpoints # {}
          /\ \A c \in StoredCheckpoints :
                IF IsCompleted(Last(modules))
                THEN queue[i] \in c.completedModuleIds
                ELSE queue[i] \in c.failedModuleIds

\* C26: within a run of generateAllModulesWithRecovery or retryFailedModules
\* a provider call is registered only while the run awaits it, a call
\* starts only when none is in flight, and the run goes on to the next unit
\* only with no call in flight and the previous unit's outcome on record.
C26_OneUnitCallAtATime ==
    [][/\ (op' \in {"generateAll", "retryFailed"} /\ activeRequests')
            => (pc' = "inflight")
       /\ (op' \in {"generateAll", "retryFailed"} /\ pc' = "inflight"
              /\ pc # "inflight")
            => ~activeRequests
       /\ (pc = "inflight" /\ pc' = "inflight") => UNCHANGED attemptNumber
       /\ NextUnitStarts => (~activeRequests /\ pc = "gap" /\ OutcomeRecorded)]_vars

\* retryFailedModules awaits the provider call of its second unit, the
\* first one's unit being the last of the reported list.
C26_Witness ==
    /\ op = "retryFailed"
    /\ pc = "inflight"
    /\ activeRequests
    /\ i = 2
    /\ Len(modules) > 0
    /\ Last(modules).roadmapModuleId = queue[1]

\* C27: assembleFinalBook has its three auxiliary generations in flight
\* together from the start, they return in any order, and the step that
\* reports completed is the return of the last of the three, the other two
\* having returned before.
C27_AuxiliaryCallsConcurrent ==
    [][/\ (pc # "assembling" /\ pc' = "assembling") =>
             \A a \in AuxNames : aux'[a] = "inflight"
       /\ (pc = "assembling" /\ pc' = "assembling") =>
             \A a \in AuxNames : aux[a] = "done" => aux'[a] = "done"
       /\ (op = "assemble" /\ status' = "completed") =>
             /\ pc = "assembling"
             /\ Cardinality({a \in AuxNames : aux[a] = "inflight"}) = 1
             /\ Cardinality({a \in AuxNames : aux[a] = "done"}) = 2]_vars

\* The glossary has returned while the introduction and the summary, issued
\* before it, are still in flight.
C27_Witness ==
    /\ pc = "assembling"
    /\ aux["glossary"] = "done"
    /\ aux["introduction"] = "inflight"
    /\ aux["summary"] = "inflight"

\* The stage a status update stands for.  The code has one status,
\* roadmap_completed, for the roadmap being ready (progress 10) and for the
\* units being ready for assembly (progress 90).
StageOf(st, pr) ==
    CASE st = "planning" -> "planning"
      [] st = "generating_roadmap" -> "roadmap_generating"
      [] st = "roadmap_completed" /\ pr < Pct(90) -> "roadmap_ready"
      [] st = "generating_content" -> "content_generating"
      [] st = "roadmap_completed" /\ pr >= Pct(90) -> "content_ready"
      [] st = "assembling" -> "assembling"
      [] st = "completed" -> "complete"
      [] st = "error" -> "failed"

StageRank(stage) ==
    CASE stage = "planning" -> 0
      [] stage = "roadmap_generating" -> 1
      [] stage = "roadmap_ready" -> 2
      [] stage = "content_generating" -> 3
      [] stage = "content_ready" -> 4
      [] stage = "assembling" -> 5
      [] stage = "complete" -> 6
      [] stage = "failed" -> 7

\* C28: from one step to the next the job's stage stays or moves forward in
\* planning, roadmap_generating, roadmap_ready, content_generating,
\* content_ready, assembling, complete; except that failed follows any stage
\* but complete, and content_generating follows failed.
C28_StatusMovesForward ==
    [][LET from == StageOf(status, progress)
           to == StageOf(status', progress')
       IN  \/ to = from
           \/ to = "failed" /\ from # "complete"
           \/ from = "failed" /\ to = "content_generating"
           \/ from # "failed" /\ to # "failed"
                 /\ StageRank(to) >= StageRank(from)]_vars

GwInFlight == gatewayCall.pc \in {"fetch", "sleep429", "sleepError"}
GwEnded == gatewayCall.pc \in {"returned", "thrown"}

C30_RetriesOnlyWhenOverloaded ==
    /\ gatewayCall.requests <= maxRetries
    /\ gatewayCall.retriedAfter \subseteq OverloadedResponses

\* A step in which generateAllModulesWithRecovery records an error unit and
\* goes on.
GenAllRecordsError ==
    /\ op = "generateAll"
    /\ pc \in {"inflight", "backoff"}
    /\ pc' = "gap"
    /\ IsError(Last(modules'))

\* C31: the progress reported after a completed unit of
\* generateAllModulesWithRecovery is 15 + 70 * (completed units / planned
\* units), at most 85, error units not counted; an error outcome leaves
\* the percentage as it was; every progress value is within 0..100.
C31_ProgressCountsCompletedUnits ==
    [][/\ \A u \in PlanIds :
             (GenAllCompletes(u) /\ pc' = "gap") =>
                progress' = Min(Pct(85),
                                Pct(15) + 70 * Len(FilterCompleted(modules')))
       /\ GenAllRecordsError => progress' = progress
       /\ progress' \in 0..Pct(100)]_vars

\* C32: the sleep before the retry that follows failed attempt k lasts
\* RETRY_DELAY_BASE * 2^(k-1) ms plus a jitter of 0 to 1000 ms, at most
\* 30000 ms; from one failed attempt of a unit to the next the delay does
\* not go down by more than 1000 ms.
C32_BackoffDelay ==
    [][/\ (pc' = "backoff") =>
             /\ delay' >= Min(RETRY_DELAY_BASE * 2 ^ (attemptNumber' - 1),
                              30000)
             /\ delay' <= Min(RETRY_DELAY_BASE * 2 ^ (attemptNumber' - 1)
                                + 1000, 30000)
       /\ (pc = "backoff" /\ pc' = "backoff") =>
             /\ attemptNumber' = attemptNumber + 1
             /\ delay' >= delay - 1000]_vars

\* The unit's second attempt has failed and the sleep before the third is
\* pending.
C32_Witness ==
    /\ pc = "backoff"
    /\ attemptNumber = 2
    /\ delay = 4000
\* ------------------------------------------------------------------------
\* C33: every roadmap returned by generateRoadmap has pairwise different
\* planned unit ids, orders that are 1..N in sequence order, and
\* totalModules equal to the length N of its unit list, whatever ids,
\* orders and total the provider wrote.
C33_RoadmapIdsUniqueAndOrdered ==
    (roadmapRun.pc = "returned") =>
        LET ms == roadmapRun.roadmap.modules
        IN  /\ roadmapRun.roadmap.present
            /\ \A a, b \in DOMAIN ms : (ms[a].id = ms[b].id) => (a = b)
            /\ \A k \in DOMAIN ms : ms[k].order = k
            /\ roadmapRun.roadmap.totalModules = Len(ms)

\* A roadmap of several units was returned at the second attempt, and the
\* provider's own ids, orders or total were others.
C33_Witness ==
    /\ roadmapRun.pc = "returned"
    /\ roadmapRun.calls = 2
    /\ roadmapRun.rewritten
    /\ Len(roadmapRun.roadmap.modules) = NumModules

\* C34: generateRoadmap never returns a roadmap with zero planned units.
C34_RoadmapNeverEmpty ==
    (roadmapRun.pc = "returned") => (Len(roadmapRun.roadmap.modules) >= 1)

\* ------------------------------------------------------------------------
\* C35: generateAllModulesWithRecovery and retryFailedModules, called on a
\* job without roadmap, throw at once: no progress update is sent (status,
\* progress, error and units stay as they are), no provider call is
\* registered, and the checkpoint map and the durable slot are untouched.
JobUntouched ==
    /\ UNCHANGED <<status, progress, error, modules, finalBook, totalWords>>
    /\ UNCHANGED <<checkpoints, localStorage, storeHistory>>
    /\ UNCHANGED <<activeRequests, roadmapRun>>
    /\ pc' = "idle"
    /\ invoked' = {}
    /\ entry' = NoEntry

C35_UnitCallsRequireRoadmap ==
    [][/\ (GenerateAllModulesWithRecovery /\ ~roadmapRun.roadmap.present) =>
             /\ lastCall' = "generateAll: No roadmap available"
             /\ JobUntouched
       /\ (RetryFailedModules /\ ~roadmapRun.roadmap.present) =>
             /\ lastCall' = "retryFailed: No roadmap available"
             /\ JobUntouched]_vars

\* generateRoadmap threw after its two attempts, and a call of
\* generateAllModulesWithRecovery on the job was rejected.
C35_Witness ==
    /\ lastCall = "generateAll: No roadmap available"
    /\ roadmapRun.pc = "thrown"
    /\ ~roadmapRun.roadmap.present
    /\ status = "error"

\* ------------------------------------------------------------------------
\* C38: retryFailedModules on a job that has no error unit returns at once
\* and changes nothing: no provider call, no progress update (status,
\* progress, error and units stay as they are), checkpoint untouched.
C38_NothingToRetryChangesNothing ==
    [][(/\ RetryFailedModules
        /\ roadmapRun.roadmap.present
        /\ Len(FilterError(modules)) = 0) =>
             /\ lastCall' = "retryFailed: nothing to retry"
             /\ JobUntouched]_vars

\* retryFailedModules returned at once on a job whose planned units are
\* all completed.
C38_Witness ==
    /\ lastCall = "retryFailed: nothing to retry"
    /\ AllPlannedCompleted(modules)
    /\ status = "roadmap_completed"
    /\ progress = Pct(90)

\* ------------------------------------------------------------------------
\* C36: cancelActiveRequests(jobId) aborts only the call registered for
\* that job: no call of another job is ever aborted by it, also when the
\* named job has no call in flight.
C36_CancelAbortsOnlyNamedJob ==
    \A k \in JobIds : requestTable[k].abortedBy # "cancelOther"

\* C39: activeRequests holds a call's controller exactly while the call is
\* in flight, that is begun, not settled and neither timed out nor
\* cancelled; once the call has returned, thrown, timed out or been
\* cancelled, neither its entry nor a pending timeout remains; a call
\* rejected by a pre-check never had either.
C39_TableHoldsCallsInFlight ==
    \A k \in JobIds :
        LET c == requestTable[k]
        IN  /\ c.registered <=> (c.pc \in Unsettled /\ ~c.aborted)
            /\ (c.pc \in {"returned", "thrown", "rejected", "none"}) =>
                   (~c.registered /\ ~c.timer)
            /\ c.aborted => (~c.registered /\ ~c.timer)

\* ------------------------------------------------------------------------
\* C37: every run of generateAllModulesWithRecovery ends, whatever the
\* provider calls do, and when it ends the job's status is error or
\* roadmap_completed (ready for assembly), never generating_content.
C37_GenerateAllTerminates ==
    /\ (op = "generateAll") ~> (op # "generateAll")
    /\ [][(op = "generateAll" /\ op' # "generateAll") =>
             /\ pc' = "idle"
             /\ status' \in {"error", "roadmap_completed"}]_vars
    /\ [][(GenerateAllModulesWithRecovery /\ op' # "generateAll") =>
             status' \in {"error", "roadmap_completed"}]_vars

\* A run over the whole roadmap ended with an error unit and the failure
\* summary.
C37_Witness ==
    /\ pc = "idle"
    /\ status = "error"
    /\ Len(modules) = NumModules
    /\ Len(FilterError(modules)) >= 1
    /\ Len(FilterCompleted(modules)) >= 1

\* ------------------------------------------------------------------------
\* C40: the logger holds at most maxLogs entries, newest first, the newest
\* being the entry of the last logging call; every logging call and every
\* clear calls each subscribed listener exactly once with the contents of
\* the log, and calls no listener that is not subscribed.
Subscribed(l) == \E k \in DOMAIN logger.listeners : logger.listeners[k] = l

C40_LoggerBoundedAndNotifiesOnce ==
    /\ Len(logger.logs) <= maxLogs
    /\ \A k \in 1..(Len(logger.logs) - 1) : logger.logs[k] > logger.logs[k + 1]
    /\ (logger.last \in Levels) =>
          /\ logger.logs # <<>>
          /\ logger.logs[1] = logger.calls
    /\ (logger.last = "clear") => (logger.logs = <<>>)
    /\ (logger.last \in Levels \cup {"clear"}) =>
          /\ logger.delivered = logger.logs
          /\ \A l \in ListenerIds :
                logger.received[l] = IF Subscribed(l) THEN 1 ELSE 0

====
